---- MODULE Spec2Model ----
(***************************************************************************)
(* Adaptive quiz session state machine of my-money-medic.                  *)
(*                                                                         *)
(* The model follows backend/app/services/adaptive_quiz_service.py (the    *)
(* service), backend/app/api/v1/endpoints/adaptive_quiz.py (the /start and *)
(* /respond handlers), backend/app/services/psychology_book_service.py,    *)
(* backend/app/ai/quiz_generator.py and backend/app/ai/gemini_service.py   *)
(* (the question generation chain), and                                    *)
(* backend/app/services/matching_algorithm.py (the broker matching engine). *)
(*                                                                         *)
(* A session is the dictionary the client holds and hands back on every    *)
(* call.  Answers are abstracted to their Python type and to the set of    *)
(* keywords their text contains (a substring test `"w" in answer.lower()`  *)
(* is the membership w \in answer.kw).  Question texts are abstracted to   *)
(* their origin (LLM or fallback table) and topic.  Persisted responses    *)
(* are kept in insertion order, which is the created_at order.             *)
(***************************************************************************)
EXTENDS Integers, Sequences, FiniteSets, TLC

VARIABLES
    session,        \* the session dictionary held by the client
    db,             \* UserQuizResponse rows of the user, in insertion order
    result,         \* what the last call returned to its caller
    nextSid,        \* next fresh session id (uuid4)
    completedSids,  \* sessions for which a completion payload was returned
    served,         \* questions served in the current session, in order
    genFailures,    \* questions for which the generation collaborator deviated
    extraSubmits,   \* submissions made on a session after its completion
    variedAnswers,  \* answers of the current session outside RoutineAnswers
    brokers,        \* Broker rows, in the order the broker query returns them
    matchRows,      \* broker ids of the BrokerClientMatch rows of the user
    payload,        \* progress, insights, matches, recommendations last returned
    session_storage,\* session ids held by the service's session_storage
    writeFault,     \* the persistence write that failed during the last call
    quizzes,        \* committed Quiz rows titled "Adaptive Broker Matching Quiz"
    saving          \* per user, the position of a running _save_responses_to_db

vars == <<session, db, result, nextSid, completedSids, served, genFailures,
          extraSubmits, variedAnswers, brokers, matchRows, payload,
          session_storage, writeFault, quizzes, saving>>

----------------------------------------------------------------------------
(* Program constants                                                       *)

total_questions == 10
text_questions_limit == 2
selection_questions_limit == 8
RestoreThreshold == 10
NumOptions == 4

(* Bounds of the model                                                     *)

MaxSessions == 2
MaxExtraSubmits == 1
MaxGenFailures == 1
MaxAbandonedRows == 2
MaxVariedAnswers == 2
MaxKeywordSlots == 2
MaxTextKeywords == 3
MaxCompleting == 2

----------------------------------------------------------------------------
(* Answers                                                                 *)

StrAnswer(words) == [kind |-> "str", kw |-> words]
ListAnswer == [kind |-> "list", kw |-> {}]
NumAnswer == [kind |-> "num", kw |-> {}]
NoneAnswer == [kind |-> "none", kw |-> {}]

\* isinstance(answer, str)
IsStr(a) == a.kind = "str"

\* truthiness of an answer: a non-empty string, a non-empty list, a number
Truthy(a) == a.kind \in {"str", "list", "num"}

SvcAnswers == {StrAnswer({"retirement", "safe"}), ListAnswer}
ApiAnswers == {StrAnswer({"retirement"}), StrAnswer({})}
GenAnswer == StrAnswer({})

\* the answers a session may hold any number of; the others are bounded
RoutineAnswers == {StrAnswer({"retirement", "safe"}), StrAnswer({})}

----------------------------------------------------------------------------
(* Question texts                                                          *)

NoText == [src |-> "none", topic |-> ""]
LlmText(topic) == [src |-> "llm", topic |-> topic]
FallbackText(topic) == [src |-> "fallback", topic |-> topic]

----------------------------------------------------------------------------
(* Question plan builder                                                   *)

Slot(o, t, c, f) == [order |-> o, topic |-> t, category |-> c, type |-> f]

_create_question_plan_three_text ==
    << Slot(1, "Investment goals and timeline", "FINANCIAL_GOALS", "single_choice"),
       Slot(2, "Risk tolerance and emotional response", "RISK_TOLERANCE", "scale"),
       Slot(3, "Investment experience and knowledge", "EXPERIENCE", "multiple_choice"),
       Slot(4, "Decision-making psychology and style", "PSYCHOLOGY", "single_choice"),
       Slot(5, "Social influence and peer behavior", "PSYCHOLOGY", "multiple_choice"),
       Slot(6, "Communication preferences and learning style", "PREFERENCES", "single_choice"),
       Slot(7, "Authority and expertise preferences", "PSYCHOLOGY", "scale"),
       Slot(8, "Financial anxiety and loss aversion", "PSYCHOLOGY", "text"),
       Slot(9, "Past financial experiences and lessons", "EXPERIENCE", "text"),
       Slot(10, "Future financial vision and aspirations", "FINANCIAL_GOALS", "text") >>

_create_question_plan ==
    << Slot(1, "Investment goals and timeline", "FINANCIAL_GOALS", "single_choice"),
       Slot(2, "Risk tolerance and emotional response", "RISK_TOLERANCE", "scale"),
       Slot(3, "Investment experience and knowledge", "EXPERIENCE", "multiple_choice"),
       Slot(4, "Decision-making psychology and style", "PSYCHOLOGY", "single_choice"),
       Slot(5, "Social influence and peer behavior", "PSYCHOLOGY", "multiple_choice"),
       Slot(6, "Communication preferences and learning style", "PREFERENCES", "single_choice"),
       Slot(7, "Authority and expertise preferences", "PSYCHOLOGY", "scale"),
       Slot(8, "Financial anxiety and loss aversion", "PSYCHOLOGY", "single_choice"),
       Slot(9, "Past financial experiences and lessons", "EXPERIENCE", "text"),
       Slot(10, "Future financial vision and aspirations", "FINANCIAL_GOALS", "text") >>

----------------------------------------------------------------------------
(* Text-generation collaborator                                            *)
(*                                                                         *)
(* One call of the model behind GeminiService ends in one of four ways:    *)
(* "ok" (usable content), "nothing" (no content parts), "raises" (the SDK  *)
(* call throws) or "garbage" (text that is not the JSON asked for).        *)

LLMOutcomes == {"ok", "nothing", "raises", "garbage"}

\* GeminiService.generate_text: every exception is swallowed, None is returned
generate_text(o) ==
    IF o \in {"nothing", "raises"} THEN "None" ELSE o

\* GeminiService.generate_json with strict=True (the default every caller uses)
generate_json(o) ==
    LET text_response == generate_text(o) IN
    IF text_response = "None" THEN [raised |-> FALSE, data |-> "None"]
    ELSE IF text_response = "garbage" THEN [raised |-> TRUE, data |-> "None"]
    ELSE [raised |-> FALSE, data |-> "json"]

NoQuestion == [text |-> NoText, question_type |-> "none", path |-> "none"]

\* PsychologyBookService.generate_psychology_enhanced_question
generate_psychology_enhanced_question(topic, question_type, o) ==
    LET r == generate_json(o) IN
    IF r.raised \/ r.data = "None" THEN NoQuestion
    ELSE [text |-> LlmText(topic), question_type |-> question_type,
          path |-> "psychology"]

\* QuizQuestionGenerator.generate_question_text
generate_question_text(topic, o) ==
    IF generate_text(o) = "None" THEN NoText ELSE LlmText(topic)

\* QuizQuestionGenerator.generate_multiple_choice_options
generate_multiple_choice_options(o) ==
    LET r == generate_json(o) IN
    IF r.raised THEN [raised |-> TRUE, options |-> 0]
    ELSE IF r.data = "json" THEN [raised |-> FALSE, options |-> NumOptions]
    ELSE [raised |-> FALSE, options |-> 0]

choice_based_types == {"single_choice", "multiple_choice", "multiple_select"}

\* QuizQuestionGenerator.create_ai_question_data
create_ai_question_data(topic, question_type_str, oText, oOpts) ==
    LET question_text == generate_question_text(topic, oText)
        opts == generate_multiple_choice_options(oOpts)
    IN
    IF question_text = NoText THEN [raised |-> FALSE, q |-> NoQuestion]
    ELSE IF question_type_str \in choice_based_types
    THEN IF opts.raised THEN [raised |-> TRUE, q |-> NoQuestion]
         ELSE IF opts.options # NumOptions
         THEN [raised |-> FALSE,
               q |-> [text |-> question_text, question_type |-> "text",
                      path |-> "standard_ai"]]
         ELSE [raised |-> FALSE,
               q |-> [text |-> question_text, question_type |-> question_type_str,
                      path |-> "standard_ai"]]
    ELSE IF question_type_str \in {"scale", "text", "boolean"}
    THEN [raised |-> FALSE,
          q |-> [text |-> question_text, question_type |-> question_type_str,
                 path |-> "standard_ai"]]
    ELSE [raised |-> FALSE,
          q |-> [text |-> question_text, question_type |-> "text",
                 path |-> "standard_ai"]]

\* the static fallback table of _get_fallback_question: topic -> question_type
fallback_questions ==
    [t \in {"Investment goals and timeline", "Decision-making psychology and style",
            "Communication preferences and learning style",
            "Financial anxiety and loss aversion"} |-> "single_choice"]
    @@ [t \in {"Risk tolerance and emotional response",
               "Authority and expertise preferences"} |-> "scale"]
    @@ [t \in {"Investment experience and knowledge",
               "Social influence and peer behavior"} |-> "multiple_choice"]
    @@ [t \in {"Past financial experiences and lessons",
               "Future financial vision and aspirations"} |-> "text"]

\* AdaptiveQuizService._get_fallback_question
_get_fallback_question(topic) ==
    IF topic \in DOMAIN fallback_questions
    THEN [text |-> FallbackText(topic), question_type |-> fallback_questions[topic],
          path |-> "static_fallback"]
    ELSE [text |-> FallbackText(topic), question_type |-> "text",
          path |-> "static_fallback"]

----------------------------------------------------------------------------
(* Session helpers                                                         *)

\* generation behaviour of the collaborator while one question is produced:
\* the outcome of the psychology call, of the question-text call, of the
\* options call, and whether the topic call names an advanced topic
OkGen == [psych |-> "ok", text |-> "ok", opts |-> "ok", topic |-> "ok"]
GenOutcomes ==
    [psych : LLMOutcomes, text : LLMOutcomes, opts : LLMOutcomes, topic : {"ok", "nothing"}]

\* Python list indexing seq[i]: 0-based, a negative index counts from the end
PyIndex(seq, i) == IF i >= 0 THEN seq[i + 1] ELSE seq[Len(seq) + i + 1]

Append1(seq, x) == IF x \in {seq[i] : i \in 1..Len(seq)} THEN seq ELSE Append(seq, x)

\* AdaptiveQuizService._update_focus_areas
_update_focus_areas(current_areas, answer) ==
    IF IsStr(answer)
    THEN IF "retirement" \in answer.kw THEN Append1(current_areas, "retirement_planning")
         ELSE IF "tax" \in answer.kw THEN Append1(current_areas, "tax_optimization")
         ELSE IF "estate" \in answer.kw THEN Append1(current_areas, "estate_planning")
         ELSE current_areas
    ELSE current_areas

\* AdaptiveQuizService._analyze_response: the types of the insights produced
_analyze_response(answer) ==
    LET risk == IF {"conservative", "safe", "low risk"} \cap answer.kw # {}
                THEN <<"risk_profile_conservative">>
                ELSE IF {"aggressive", "high risk", "growth"} \cap answer.kw # {}
                THEN <<"risk_profile_aggressive">>
                ELSE <<>>
        capacity == IF {"100k", "500k", "million"} \cap answer.kw # {}
                    THEN <<"investment_capacity">> ELSE <<>>
    IN IF Truthy(answer) /\ IsStr(answer) THEN risk \o capacity ELSE <<>>

\* a stored response record whose "response" is a dictionary with an "answer"
IsDictResponse(r) == r.wrapped

\* PsychologyBookService.get_psychology_based_insights: response.get("response",
\* {}).get("answer", "") raises AttributeError on a record whose "response" is
\* the bare answer
get_psychology_based_insights(responses) ==
    IF \E i \in 1..Len(responses) : ~IsDictResponse(responses[i])
    THEN [raised |-> TRUE, insights |-> <<>>]
    ELSE [raised |-> FALSE,
          insights |->
            IF \E i \in 1..Len(responses) :
                 IsStr(responses[i].response) /\
                 {"safe", "secure", "conservative", "protect"} \cap responses[i].response.kw # {}
            THEN <<"risk_profile_safety_first">> ELSE <<>>]

\* AdaptiveQuizService._analyze_response_with_psychology
_analyze_response_with_psychology(responses, answer) ==
    LET basic_insights == _analyze_response(answer)
        p == get_psychology_based_insights(responses)
        psychology_insights == IF p.raised THEN <<>> ELSE p.insights
    IN basic_insights \o psychology_insights

\* AdaptiveQuizService._get_selection_question_type: the stored records carry
\* no "question_type" key, the list of used types is built from that key
question_types_used(responses) ==
    LET has == SelectSeq(responses, LAMBDA r : "question_type" \in DOMAIN r)
    IN [i \in 1..Len(has) |-> has[i].question_type]

CountOf(seq, x) == Cardinality({i \in 1..Len(seq) : seq[i] = x})

_get_selection_question_type(sd) ==
    LET used == question_types_used(sd.responses) IN
    IF CountOf(used, "single_choice") < 4 THEN "single_choice"
    ELSE IF CountOf(used, "multiple_choice") < 3 THEN "multiple_choice"
    ELSE IF CountOf(used, "scale") < 2 THEN "scale"
    ELSE "single_choice"

\* AdaptiveQuizService._choose_question_type_controlled
_choose_question_type_controlled(sd) ==
    IF sd.current_question >= 9 /\ sd.text_questions_used < text_questions_limit
    THEN "text"
    ELSE IF sd.text_questions_used >= text_questions_limit
    THEN _get_selection_question_type(sd)
    ELSE IF sd.selection_questions_used >= selection_questions_limit
    THEN "text"
    ELSE _get_selection_question_type(sd)

core_topics ==
    << "Investment goals and timeline", "Risk tolerance and comfort level",
       "Investment experience and knowledge",
       "Service preferences and communication style" >>

advanced_topics ==
    << "Specific investment sectors of interest", "Tax planning considerations",
       "Estate planning needs", "International investment exposure",
       "Alternative investment interest", "Retirement planning specifics" >>

LastN(seq, n) == IF Len(seq) <= n THEN seq ELSE SubSeq(seq, Len(seq) - n + 1, Len(seq))

\* AdaptiveQuizService._summarize_responses: response.get("response", {}).get(
\* "answer", "") raises AttributeError on a bare answer among the last three
_summarize_responses_raises(responses) ==
    \E i \in 1..Len(LastN(responses, 3)) : ~IsDictResponse(LastN(responses, 3)[i])

\* AdaptiveQuizService._determine_next_topic
_determine_next_topic(sd, oTopic) ==
    IF sd.current_question <= 4
    THEN [raised |-> FALSE,
          topic |-> core_topics[((sd.current_question - 1) % Len(core_topics)) + 1]]
    ELSE IF sd.focus_areas # <<>> /\ _summarize_responses_raises(sd.responses)
    THEN [raised |-> TRUE, topic |-> ""]
    ELSE IF sd.focus_areas # <<>> /\ generate_text(oTopic) # "None"
    THEN [raised |-> FALSE, topic |-> advanced_topics[1]]
    ELSE [raised |-> FALSE,
          topic |-> advanced_topics[((sd.current_question - 5) % Len(advanced_topics)) + 1]]

\* the distinct non-empty members of a sequence of texts, first occurrences
\* kept, in order
DistinctTexts(texts) ==
    LET keep == {i \in 1..Len(texts) :
                    /\ texts[i] # NoText
                    /\ \A j \in 1..(i - 1) : texts[j] # texts[i]}
        Nth(k) == CHOOSE i \in keep : Cardinality({j \in keep : j <= i}) = k
    IN [k \in 1..Cardinality(keep) |-> texts[Nth(k)]]

\* AdaptiveQuizService._get_previous_questions
_get_previous_questions(sd) ==
    DistinctTexts([i \in 1..Len(sd.responses) |-> sd.responses[i].question_text]
                  \o <<sd.current_question_text>>)

\* AdaptiveQuizService._generate_psychology_enhanced_question: the question
\* served for the session's current slot and the updated usage counters
_generate_psychology_enhanced_question(sd, g) ==
    LET current_question_num == sd.current_question
        planned == current_question_num <= Len(sd.question_plan)
        nt == _determine_next_topic(sd, g.topic)
        planned_question == PyIndex(sd.question_plan, current_question_num - 1)
        topic == IF planned THEN planned_question.topic ELSE nt.topic
        question_type == IF planned THEN planned_question.type
                         ELSE _choose_question_type_controlled(sd)
        existing_questions == _get_previous_questions(sd)
        q1 == generate_psychology_enhanced_question(topic, question_type, g.psych)
        ai == create_ai_question_data(topic, question_type, g.text, g.opts)
        q2 == IF q1 # NoQuestion THEN q1 ELSE ai.q
        q3 == IF q2 # NoQuestion THEN q2 ELSE _get_fallback_question(topic)
        raised == (~planned /\ nt.raised) \/ (q1 = NoQuestion /\ ai.raised)
        \* calls of the text-generation model made for this question: the
        \* psychology call, then generate_question_text, then the options call
        generation_calls ==
            1 + (IF q1 # NoQuestion THEN 0
                 ELSE 1 + (IF /\ generate_question_text(topic, g.text) # NoText
                              /\ question_type \in choice_based_types
                           THEN 1 ELSE 0))
        tracked == IF question_type = "text"
                   THEN [sd EXCEPT !.text_questions_used = @ + 1]
                   ELSE [sd EXCEPT !.selection_questions_used = @ + 1]
    IN IF raised
       THEN [raised |-> TRUE, sd |-> sd, question |-> NoQuestion, order |-> 0,
             existing_questions |-> existing_questions,
             generation_calls |-> generation_calls]
       ELSE [raised |-> FALSE, sd |-> tracked, question |-> q3,
             order |-> current_question_num,
             existing_questions |-> existing_questions,
             generation_calls |-> generation_calls]

----------------------------------------------------------------------------
(* State                                                                   *)

NoSession ==
    [session_id |-> 0, current_question |-> 0, responses |-> <<>>,
     insights |-> <<>>, focus_areas |-> <<>>, question_plan |-> <<>>,
     text_questions_used |-> 0, selection_questions_used |-> 0,
     current_question_text |-> NoText]

NoResult == [op |-> "none", kind |-> "none", order |-> 0, question_type |-> "none",
             nresp |-> 0]

\* the part of a returned payload that is not the session or the question
NoPayload ==
    [progress |-> 0, insights |-> <<>>, matches |-> <<>>, recommendations |-> <<>>,
     status |-> "none", top_n |-> 0, save_to_db |-> FALSE,
     input |-> NoneAnswer, returned |-> <<>>]

\* a Broker row
Broker(id, level, specs, rating, success) ==
    [id |-> id, is_active |-> TRUE, is_verified |-> TRUE, is_deleted |-> FALSE,
     test_email |-> FALSE, experience_level |-> level, specializations |-> specs,
     average_rating |-> rating, success_rate |-> success]

DefaultBrokers ==
    << Broker(1, "senior", {"retirement_planning", "financial_planning"}, 45, 90),
       Broker(2, "expert", {"tax_strategies", "technology_investing"}, 40, 80) >>

\* AdaptiveQuizService._determine_initial_focus_areas, for a CLIENT user
_determine_initial_focus_areas ==
    << "investment_goals", "risk_assessment", "psychology_analysis",
       "broker_preferences", "service_needs" >>

\* the shared Quiz record the adaptive responses are attached to
AdaptiveQuizTitle == "Adaptive Broker Matching Quiz"

AdaptiveQuiz(id) == [id |-> id, title |-> AdaptiveQuizTitle]

\* the users whose completions may run at the same time
CompletingUsers == 1..MaxCompleting

\* a database transaction of _save_responses_to_db that has not begun
NoTransaction == [pc |-> "idle", quiz_found |-> FALSE, quiz_added |-> FALSE, flushed |-> 0]

NoSaving == [u \in CompletingUsers |-> NoTransaction]

Init ==
    /\ quizzes = {}
    /\ saving = NoSaving
    /\ session = NoSession
    /\ db = <<>>
    /\ result = NoResult
    /\ nextSid = 1
    /\ completedSids = {}
    /\ served = <<>>
    /\ genFailures = 0
    /\ extraSubmits = 0
    /\ variedAnswers = 0
    /\ brokers = DefaultBrokers
    /\ matchRows = {}
    /\ payload = NoPayload
    /\ session_storage = {}
    /\ writeFault = "none"

IsCompleted(sd) == sd.session_id \in completedSids

QuestionResult(op, gen, sd) ==
    [op |-> op, kind |-> "question", order |-> gen.order,
     question_type |-> gen.question.question_type, nresp |-> Len(sd.responses)]

CompletedResult(op, sd) ==
    [op |-> op, kind |-> "completed", order |-> 0, question_type |-> "none",
     nresp |-> Len(sd.responses)]

ErrorResult(op) ==
    [op |-> op, kind |-> "error", order |-> 0, question_type |-> "none", nresp |-> 0]

\* what is known of a question once it is served: its slot, type and text, the
\* stage that produced it, the texts the generator was given to avoid and the
\* number of calls of the text-generation model made for it
ServedEntry(gen) ==
    [order |-> gen.order, question_type |-> gen.question.question_type,
     path |-> gen.question.path, text |-> gen.question.text,
     existing_questions |-> gen.existing_questions,
     generation_calls |-> gen.generation_calls]

\* the collaborator deviates from "ok" on at most MaxGenFailures questions
GenAllowed(g) == g = OkGen \/ genFailures < MaxGenFailures
GenCount(g) == IF g = OkGen THEN genFailures ELSE genFailures + 1

\* a session holds at most MaxVariedAnswers answers outside RoutineAnswers
AnswerAllowed(a) == a \in RoutineAnswers \/ variedAnswers < MaxVariedAnswers
AnswerCount(a) == IF a \in RoutineAnswers THEN variedAnswers ELSE variedAnswers + 1

----------------------------------------------------------------------------
(* Service operations                                                      *)

\* the session dictionary built by AdaptiveQuizService.start_adaptive_quiz
NewSession(sid) ==
    [session_id |-> sid, current_question |-> 1, responses |-> <<>>,
     insights |-> <<>>, focus_areas |-> _determine_initial_focus_areas,
     question_plan |-> _create_question_plan,
     text_questions_used |-> 0, selection_questions_used |-> 0,
     current_question_text |-> NoText]

\* AdaptiveQuizService.start_adaptive_quiz
start_adaptive_quiz(sid, g) ==
    LET Started(gen) ==
            IF gen.raised THEN [raised |-> TRUE, sd |-> NoSession, gen |-> gen]
            ELSE [raised |-> FALSE,
                  sd |-> [gen.sd EXCEPT !.current_question_text = gen.question.text],
                  gen |-> gen]
    IN Started(_generate_psychology_enhanced_question(NewSession(sid), g))

\* the ResponseRecord stored by submit_response_and_get_next
ResponseData(sd, answer) ==
    [question_number |-> sd.current_question, response |-> answer,
     wrapped |-> FALSE, sid |-> 0, question_text |-> sd.current_question_text]

\* the completion test of submit_response_and_get_next
QuizIsOver(sd) == sd.current_question >= total_questions

\* the slot index after an answer that does not complete the quiz
NextSlotDown(sd) == sd.current_question - 1

NextSlot(sd) == sd.current_question + 1

\* the UserQuizResponse row written for one stored response:
\* json.dumps(response_data["response"]), joined to a QuizQuestion (qtext)
\* that carries the text of the question answered
DbRow(r) ==
    IF r.wrapped
    THEN [dict |-> TRUE, sid |-> r.sid, answer |-> r.response,
          question_order |-> r.question_number, question_text |-> r.question_text,
          qtext |-> r.question_text]
    ELSE [dict |-> FALSE, sid |-> 0, answer |-> r.response,
          question_order |-> 0, question_text |-> NoText,
          qtext |-> r.question_text]

\* AdaptiveQuizService._save_responses_to_db
_save_responses_to_db(rows, sd) ==
    rows \o [i \in 1..Len(sd.responses) |-> DbRow(sd.responses[i])]

\* the get-or-create that opens _save_responses_to_db, run without another
\* transaction in between: the Quiz is added under a fresh id when the query
\* by title finds none
_get_or_create_quiz(table, id) ==
    IF \E quiz \in table : quiz.title = AdaptiveQuizTitle THEN table
    ELSE table \cup {AdaptiveQuiz(id)}

----------------------------------------------------------------------------
(* Broker matching engine (backend/app/services/matching_algorithm.py)     *)
(*                                                                         *)
(* Scores are kept as integers: a criterion score s in [0,1] is the        *)
(* integer s * ScoreScale, a weight is a number of hundredths, and a       *)
(* weighted total is therefore in units of 1 / (100 * ScoreScale).  Ratings *)
(* are tenths of a star (0..50), success rates are hundredths (0..100).    *)
(* The items of a list answer are kept as the set kw; its first item is a  *)
(* fixed one of them, and a list whose items carry no keyword has one item. *)

ScoreScale == 6000

\* BrokerMatchingAlgorithm.WEIGHTS, in hundredths
WEIGHTS ==
    [investment_goals |-> 20, risk_tolerance |-> 15, experience_match |-> 15,
     service_alignment |-> 15, investment_amount |-> 10, sector_interests |-> 10,
     communication_style |-> 5, certification_match |-> 5, broker_performance |-> 5]

EXPERIENCE_COMPATIBILITY ==
    [none |-> {"junior", "intermediate"},
     beginner |-> {"intermediate", "senior"},
     intermediate |-> {"intermediate", "senior", "expert"},
     advanced |-> {"senior", "expert"},
     expert |-> {"expert"}]

RISK_COMPATIBILITY ==
    [conservative |-> {"conservative", "moderate_conservative"},
     moderate_conservative |-> {"conservative", "moderate_conservative", "moderate"},
     moderate |-> {"moderate_conservative", "moderate", "moderate_aggressive"},
     moderate_aggressive |-> {"moderate", "moderate_aggressive", "aggressive"},
     aggressive |-> {"moderate_aggressive", "aggressive"}]

\* the question texts the scoring functions look responses up by
GoalQuestion == "What is your primary investment goal?"
RiskQuestion == "What is your risk tolerance level?"
ExperienceQuestion == "How would you describe your investment experience?"
ServicesQuestion == "Which services are most important to you?"
AmountQuestion == "What is your approximate investment amount?"
SectorsQuestion == "Which sectors are you most interested in investing?"
CommunicationQuestion == "How would you prefer to communicate with your broker?"
CertificationQuestion == "Do you have any specific broker certification preferences?"

\* a question text of the seeded broker matching questionnaire
SeedText(text) == [src |-> "seed", topic |-> text]

\* the text of the QuizQuestion a row is joined to, as a string
QuestionString(qtext) ==
    IF qtext.src = "seed" THEN qtext.topic
    ELSE IF qtext.src = "fallback" /\ qtext.topic = "Investment experience and knowledge"
    THEN ExperienceQuestion
    ELSE "other"

ListOf(items) == [kind |-> "list", kw |-> items]

\* a response row of the static questionnaire: the answer itself is stored
SeedRow(text, a) ==
    [dict |-> FALSE, sid |-> 0, answer |-> a, question_order |-> 0,
     question_text |-> NoText, qtext |-> SeedText(text)]

\* str(x).lower() of an answer that is one bare word; "other" for any other text
ExactWord(a) ==
    IF a.kind = "str" /\ Cardinality(a.kw) = 1 THEN CHOOSE w \in a.kw : TRUE ELSE "other"

ItemCount(a) == IF a.kw = {} THEN 1 ELSE Cardinality(a.kw)

\* BrokerMatchingAlgorithm._get_user_responses: question text -> response data,
\* a later row of the same text replacing an earlier one
_get_user_responses(rows) ==
    LET texts == {QuestionString(rows[i].qtext) : i \in 1..Len(rows)}
        last(t) == CHOOSE i \in 1..Len(rows) :
                     /\ QuestionString(rows[i].qtext) = t
                     /\ \A j \in 1..Len(rows) :
                          QuestionString(rows[j].qtext) = t => j <= i
    IN [t \in texts |-> [dict |-> rows[last(t)].dict, answer |-> rows[last(t)].answer]]

\* response_data is falsy: None, "", [] (a dictionary written by /respond never is)
Unanswered(user_responses, text) ==
    \/ text \notin DOMAIN user_responses
    \/ (~user_responses[text].dict /\ ~Truthy(user_responses[text].answer))

\* the "handle both list and string formats" block of the scalar criteria:
\* the first item of a list, the "answer" of a dictionary, the value itself
ScalarOf(r) ==
    IF r.dict THEN r.answer
    ELSE IF r.answer.kind = "list"
    THEN StrAnswer(IF r.answer.kw = {} THEN {} ELSE {CHOOSE w \in r.answer.kw : TRUE})
    ELSE r.answer

\* the same block of the list criteria: the list itself, or a one-item list
\* holding str() of a dictionary, of a number or of a bare string
ItemsOf(r) ==
    IF ~r.dict /\ r.answer.kind = "list" THEN r.answer
    ELSE IF ~r.dict /\ r.answer.kind = "str" THEN ListOf(IF Cardinality(r.answer.kw) = 1
                                                         THEN r.answer.kw ELSE {})
    ELSE ListOf({})

\* `needle in spec` for a specialization name
SubstringOf(needle, spec) ==
    \/ needle = spec
    \/ <<needle, spec>> \in {<<"technology", "technology_investing">>,
                             <<"retirement", "retirement_planning">>}

HasSpec(broker, needle) == \E spec \in broker.specializations : SubstringOf(needle, spec)

goal_to_specialization ==
    [retirement |-> {"retirement_planning", "financial_planning"},
     wealth_growth |-> {"investment_management", "wealth_management"},
     income |-> {"income_strategies", "dividend_investing"},
     education |-> {"education_planning", "529_plans"},
     home_purchase |-> {"real_estate_planning", "savings_strategies"}]

_score_investment_goals(broker, user_responses) ==
    IF Unanswered(user_responses, GoalQuestion) THEN ScoreScale \div 2
    ELSE LET user_goal == ScalarOf(user_responses[GoalQuestion]) IN
         IF ~Truthy(user_goal) THEN ScoreScale \div 2
         ELSE IF ExactWord(user_goal) \notin DOMAIN goal_to_specialization
         THEN (7 * ScoreScale) \div 10
         ELSE LET required_specs == goal_to_specialization[ExactWord(user_goal)]
                  matches == Cardinality({s \in required_specs : HasSpec(broker, s)})
              IN (matches * ScoreScale) \div Cardinality(required_specs)

broker_risk_styles ==
    [junior |-> {"conservative", "moderate_conservative"},
     intermediate |-> {"moderate_conservative", "moderate"},
     senior |-> {"moderate", "moderate_aggressive"},
     expert |-> {"moderate_aggressive", "aggressive"}]

_score_risk_tolerance(broker, user_responses) ==
    IF Unanswered(user_responses, RiskQuestion) THEN ScoreScale \div 2
    ELSE LET user_risk == ScalarOf(user_responses[RiskQuestion]) IN
         IF ~Truthy(user_risk) THEN ScoreScale \div 2
         ELSE LET compatible_risks ==
                      IF ExactWord(user_risk) \in DOMAIN RISK_COMPATIBILITY
                      THEN RISK_COMPATIBILITY[ExactWord(user_risk)]
                      ELSE {ExactWord(user_risk)}
                  broker_styles == broker_risk_styles[broker.experience_level]
              IN IF broker_styles \cap compatible_risks # {} THEN ScoreScale
                 ELSE (3 * ScoreScale) \div 10

_score_experience_match(broker, user_responses) ==
    IF Unanswered(user_responses, ExperienceQuestion) THEN ScoreScale \div 2
    ELSE LET user_experience == ScalarOf(user_responses[ExperienceQuestion]) IN
         IF ~Truthy(user_experience) THEN ScoreScale \div 2
         ELSE LET word == ExactWord(user_experience)
                  compatible_levels ==
                      IF word \in DOMAIN EXPERIENCE_COMPATIBILITY
                      THEN EXPERIENCE_COMPATIBILITY[word] ELSE {}
                  broker_exp == broker.experience_level
              IN IF broker_exp \in compatible_levels
                 THEN IF (word = "none" /\ broker_exp = "junior")
                         \/ (word = "expert" /\ broker_exp = "expert")
                      THEN ScoreScale ELSE (8 * ScoreScale) \div 10
                 ELSE (3 * ScoreScale) \div 10

service_to_specialization(service) ==
    IF service = "tax_planning" THEN "tax_strategies"
    ELSE IF service = "insurance" THEN "insurance_planning"
    ELSE service

_score_service_alignment(broker, user_responses) ==
    IF Unanswered(user_responses, ServicesQuestion) THEN ScoreScale \div 2
    ELSE LET user_services == ItemsOf(user_responses[ServicesQuestion])
             matches == Cardinality({s \in user_services.kw :
                                       HasSpec(broker, service_to_specialization(s))})
         IN (matches * ScoreScale) \div ItemCount(user_services)

amount_requirements ==
    [less_10k |-> 0, 10k_50k |-> 10000, 50k_100k |-> 50000,
     100k_500k |-> 100000, 500k_plus |-> 500000]

broker_minimums ==
    [junior |-> 0, intermediate |-> 10000, senior |-> 50000, expert |-> 100000]

_score_investment_amount(broker, user_responses) ==
    IF Unanswered(user_responses, AmountQuestion) THEN ScoreScale \div 2
    ELSE LET user_amount == ScalarOf(user_responses[AmountQuestion]) IN
         IF ~Truthy(user_amount) THEN ScoreScale \div 2
         ELSE LET user_min == IF ExactWord(user_amount) \in DOMAIN amount_requirements
                              THEN amount_requirements[ExactWord(user_amount)] ELSE 0
                  broker_min == broker_minimums[broker.experience_level]
              IN IF user_min >= broker_min THEN ScoreScale
                 ELSE IF 2 * user_min >= broker_min THEN (7 * ScoreScale) \div 10
                 ELSE (4 * ScoreScale) \div 10

_score_sector_interests(broker, user_responses) ==
    IF Unanswered(user_responses, SectorsQuestion) THEN ScoreScale \div 2
    ELSE LET user_sectors == ItemsOf(user_responses[SectorsQuestion])
             matches == Cardinality({s \in user_sectors.kw : HasSpec(broker, s)})
         IN (matches * ScoreScale) \div ItemCount(user_sectors)

_score_communication_style(broker, user_responses) ==
    IF CommunicationQuestion \notin DOMAIN user_responses
    THEN (8 * ScoreScale) \div 10
    ELSE (9 * ScoreScale) \div 10

_score_certification_match(broker, user_responses) ==
    IF Unanswered(user_responses, CertificationQuestion) THEN (8 * ScoreScale) \div 10
    ELSE LET user_certs == ItemsOf(user_responses[CertificationQuestion]) IN
         IF "no_preference" \in user_certs.kw THEN ScoreScale
         ELSE (7 * ScoreScale) \div 10

\* a rating of 5 stars counted as 0.7 + ... without the division by 5.0
_score_broker_performance_undivided(broker) ==
    LET rating_score == IF broker.average_rating # 0
                        THEN (broker.average_rating * ScoreScale) \div 10
                        ELSE ScoreScale \div 2
        success_score == IF broker.success_rate # 0
                         THEN (broker.success_rate * ScoreScale) \div 100
                         ELSE ScoreScale \div 2
    IN (7 * rating_score + 3 * success_score) \div 10

_score_broker_performance(broker) ==
    LET rating_score == IF broker.average_rating # 0
                        THEN (broker.average_rating * ScoreScale) \div 50
                        ELSE ScoreScale \div 2
        success_score == IF broker.success_rate # 0
                         THEN (broker.success_rate * ScoreScale) \div 100
                         ELSE ScoreScale \div 2
    IN (7 * rating_score + 3 * success_score) \div 10

\* the nine criterion scores of _calculate_broker_score
CriterionScores(broker, user_responses) ==
    [investment_goals |-> _score_investment_goals(broker, user_responses),
     risk_tolerance |-> _score_risk_tolerance(broker, user_responses),
     experience_match |-> _score_experience_match(broker, user_responses),
     service_alignment |-> _score_service_alignment(broker, user_responses),
     investment_amount |-> _score_investment_amount(broker, user_responses),
     sector_interests |-> _score_sector_interests(broker, user_responses),
     communication_style |-> _score_communication_style(broker, user_responses),
     certification_match |-> _score_certification_match(broker, user_responses),
     broker_performance |-> _score_broker_performance(broker)]

Min(a, b) == IF a <= b THEN a ELSE b

\* the weighted sum of the criterion scores
WeightedTotal(scores) ==
    scores.investment_goals * WEIGHTS.investment_goals
    + scores.risk_tolerance * WEIGHTS.risk_tolerance
    + scores.experience_match * WEIGHTS.experience_match
    + scores.service_alignment * WEIGHTS.service_alignment
    + scores.investment_amount * WEIGHTS.investment_amount
    + scores.sector_interests * WEIGHTS.sector_interests
    + scores.communication_style * WEIGHTS.communication_style
    + scores.certification_match * WEIGHTS.certification_match
    + scores.broker_performance * WEIGHTS.broker_performance

\* a score that also reads the match rows stored by earlier runs
_calculate_broker_score_stateful(broker, user_responses) ==
    LET scores == CriterionScores(broker, user_responses)
        total_score == WeightedTotal(scores) + ScoreScale * Cardinality(matchRows)
    IN Min(total_score, 100 * ScoreScale)

\* BrokerMatchingAlgorithm._calculate_broker_score, in units of
\* 1 / (100 * ScoreScale)
_calculate_broker_score(broker, user_responses) ==
    LET scores == CriterionScores(broker, user_responses)
        total_score == WeightedTotal(scores)
    IN Min(total_score, 100 * ScoreScale)

\* the filter of the broker query of calculate_matches
Eligible(broker) ==
    /\ broker.is_active
    /\ broker.is_verified
    /\ ~broker.is_deleted
    /\ ~broker.test_email

\* list.sort(key=score, reverse=True): descending, stable
SortByScoreDesc(pairs) ==
    LET n == Len(pairs)
        rank(i) == 1 + Cardinality({j \in 1..n :
                        \/ pairs[j].score > pairs[i].score
                        \/ (pairs[j].score = pairs[i].score /\ j < i)})
    IN [k \in 1..n |-> pairs[CHOOSE i \in 1..n : rank(i) = k]]

Take(seq, n) == IF Len(seq) <= n THEN seq ELSE SubSeq(seq, 1, n)

\* BrokerMatchingAlgorithm.calculate_matches without the early return for a
\* user who has no responses
calculate_matches_unguarded(table, rows, top_n) ==
    LET user_responses == _get_user_responses(rows)
        eligible == SelectSeq(table, Eligible)
        broker_scores ==
            [i \in 1..Len(eligible) |->
                [broker |-> eligible[i],
                 score |-> _calculate_broker_score(eligible[i], user_responses)]]
    IN Take(SortByScoreDesc(broker_scores), top_n)

\* BrokerMatchingAlgorithm.calculate_matches
calculate_matches(table, rows, top_n) ==
    LET user_responses == _get_user_responses(rows)
        eligible == SelectSeq(table, Eligible)
        broker_scores ==
            [i \in 1..Len(eligible) |->
                [broker |-> eligible[i],
                 score |-> _calculate_broker_score(eligible[i], user_responses)]]
    IN IF DOMAIN user_responses = {} THEN <<>>
       ELSE Take(SortByScoreDesc(broker_scores), top_n)

\* round(score, 3), in thousandths
Round3(score) == (score * 10 + ScoreScale \div 2) \div ScoreScale

\* one entry of the list returned by generate_broker_matches
MatchData(pair) ==
    [broker_id |-> pair.broker.id, match_score |-> Round3(pair.score),
     eligible |-> Eligible(pair.broker)]

DefaultTopN == 10

\* generate_broker_matches: the returned list and the BrokerClientMatch rows
\* after the call; write_ok is whether the final commit goes through
generate_broker_matches(table, rows, stored, save_to_db, write_ok) ==
    LET Ranked(matches) ==
            IF save_to_db /\ ~write_ok
            THEN [raised |-> TRUE, results |-> <<>>, stored |-> stored]
            ELSE [raised |-> FALSE,
                  results |-> [i \in 1..Len(matches) |-> MatchData(matches[i])],
                  stored |-> IF save_to_db
                             THEN stored \cup {matches[i].broker.id :
                                                  i \in 1..Len(matches)}
                             ELSE stored]
    IN Ranked(calculate_matches(table, rows, DefaultTopN))

----------------------------------------------------------------------------
(* Insights, recommendations and the completion cascade                    *)

\* _analyze_response_patterns: the trait one answer sets in a category, "" when
\* none of the category's keywords is in the answer
\* the decision families tried in another order: analytical before social
DecisionOfAnalyticalFirst(a) ==
    IF {"research", "analyze", "data", "study"} \cap a.kw # {} THEN "analytical"
    ELSE IF {"friends", "family", "others", "social"} \cap a.kw # {} THEN "social"
    ELSE IF {"gut", "feeling", "intuition", "instinct"} \cap a.kw # {} THEN "intuitive"
    ELSE ""

DecisionOf(a) ==
    IF {"friends", "family", "others", "social"} \cap a.kw # {} THEN "social"
    ELSE IF {"research", "analyze", "data", "study"} \cap a.kw # {} THEN "analytical"
    ELSE IF {"gut", "feeling", "intuition", "instinct"} \cap a.kw # {} THEN "intuitive"
    ELSE ""

RiskOf(a) ==
    IF {"safe", "secure", "conservative", "protect", "worried"} \cap a.kw # {}
    THEN "conservative"
    ELSE IF {"aggressive", "growth", "risk", "opportunity", "high"} \cap a.kw # {}
    THEN "aggressive"
    ELSE ""

CommunicationOf(a) ==
    IF {"charts", "graphs", "visual", "reports"} \cap a.kw # {} THEN "visual"
    ELSE IF {"meeting", "discussion", "talk", "conversation"} \cap a.kw # {} THEN "personal"
    ELSE ""

\* the value a pattern has after the loop over the responses, given the
\* trait each response sets: every response that matches assigns it, so the
\* last assignment stays
Assigned(traits, default) ==
    LET hits == {i \in 1..Len(traits) : traits[i] # ""} IN
    IF hits = {} THEN default
    ELSE traits[CHOOSE i \in hits : \A j \in hits : j <= i]

\* AdaptiveQuizService._analyze_response_patterns
_analyze_response_patterns(responses) ==
    [decision_style |->
        Assigned([i \in 1..Len(responses) |-> DecisionOf(responses[i].response)],
                 "balanced"),
     risk_level |->
        Assigned([i \in 1..Len(responses) |-> RiskOf(responses[i].response)],
                 "moderate"),
     communication |->
        Assigned([i \in 1..Len(responses) |-> CommunicationOf(responses[i].response)],
                 "mixed")]

\* AdaptiveQuizService._create_personalized_fallbacks: the titles of the four
\* fallback insights
_create_personalized_fallbacks(responses) ==
    LET response_analysis == _analyze_response_patterns(responses) IN
    << IF response_analysis.decision_style = "analytical" THEN "Data Driven"
       ELSE IF response_analysis.decision_style = "social" THEN "Trust Builder"
       ELSE "Balanced Approach",
       IF response_analysis.risk_level = "conservative" THEN "Safety First"
       ELSE IF response_analysis.risk_level = "aggressive" THEN "Growth Focused"
       ELSE "Balanced Investor",
       IF response_analysis.communication = "visual" THEN "Visual Learner"
       ELSE "Clear Communication",
       "Long-term Thinker" >>

\* the number of lines of the narrative that parse as insights
InsightLines(o) == IF generate_text(o) = "ok" THEN 4 ELSE 0

\* AdaptiveQuizService._generate_final_insights: the parsed narrative lines,
\* filled up to four with the fallbacks
_generate_final_insights(responses, o) ==
    LET final_insights == [i \in 1..InsightLines(o) |-> "ai_enhanced_analysis"]
        personalized_fallbacks == _create_personalized_fallbacks(responses)
    IN Take(final_insights \o Take(personalized_fallbacks, 4 - Len(final_insights)), 4)

\* AdaptiveQuizService._generate_recommendations
_generate_recommendations(responses, matches) ==
    LET response_analysis == _analyze_response_patterns(responses) IN
    Take(<< IF response_analysis.decision_style \in {"social", "analytical", "intuitive"}
            THEN response_analysis.decision_style ELSE "adaptive",
            IF response_analysis.risk_level \in {"conservative", "aggressive"}
            THEN response_analysis.risk_level ELSE "balanced",
            IF response_analysis.communication \in {"visual", "personal"}
            THEN response_analysis.communication ELSE "preferred",
            IF matches # <<>> THEN "best_match" ELSE "placeholder" >>, 4)

\* AdaptiveQuizService._generate_investment_profile: response["response"].get
\* raises AttributeError on a record whose "response" is a non-empty bare answer
_generate_investment_profile_raises(responses) ==
    \E i \in 1..Len(responses) :
        ~IsDictResponse(responses[i]) /\ Truthy(responses[i].response)

\* the keywords of the answers _generate_investment_profile joins into all_text:
\* the non-empty "answer" of every record whose "response" is a dictionary
ProfileKeywords(responses) ==
    UNION {responses[i].response.kw :
             i \in {j \in 1..Len(responses) : Truthy(responses[j].response)}}

\* AdaptiveQuizService._generate_investment_profile
_generate_investment_profile(responses) ==
    LET Profiled(all_text) ==
            [investment_horizon |->
                IF {"retirement", "long", "future", "years"} \cap all_text # {}
                THEN "Long-term (7+ years)"
                ELSE IF {"short", "soon", "immediate", "quick"} \cap all_text # {}
                THEN "Short-term (1-3 years)"
                ELSE "Medium-term (3-7 years)",
             risk_tolerance |->
                IF {"safe", "conservative", "stable", "secure"} \cap all_text # {}
                THEN "Conservative"
                ELSE IF {"aggressive", "risky", "growth", "high"} \cap all_text # {}
                THEN "Aggressive"
                ELSE "Moderate",
             preferred_focus |->
                IF {"income", "dividends", "steady"} \cap all_text # {}
                THEN "Income Generation"
                ELSE IF {"growth", "capital", "appreciate"} \cap all_text # {}
                THEN "Capital Growth"
                ELSE IF {"research", "analysis", "study"} \cap all_text # {}
                THEN "Research-Based"
                ELSE "Balanced Growth"]
    IN IF _generate_investment_profile_raises(responses)
       THEN [raised |-> TRUE, profile |-> <<>>]
       ELSE [raised |-> FALSE, profile |-> <<Profiled(ProfileKeywords(responses))>>]

\* AdaptiveQuizService._generate_matches: every exception of the matching run
\* is swallowed and an empty list is returned
_generate_matches(table, rows, stored, write_ok) ==
    LET Caught(r) ==
            IF r.raised THEN [results |-> <<>>, stored |-> stored]
            ELSE [results |-> r.results, stored |-> r.stored]
    IN Caught(generate_broker_matches(table, rows, stored, TRUE, write_ok))

\* the hardcoded demo brokers of _get_broker_matches
DemoMatches ==
    << [broker_id |-> -1, match_score |-> 920, eligible |-> FALSE],
       [broker_id |-> -2, match_score |-> 880, eligible |-> FALSE],
       [broker_id |-> -3, match_score |-> 840, eligible |-> FALSE] >>

\* AdaptiveQuizService._get_broker_matches for a session found in the store
_get_broker_matches(table, rows, stored, write_ok) ==
    LET first3 == Take(table, 3)
        demo_matches ==
            [i \in 1..Len(first3) |->
                [broker_id |-> first3[i].id, match_score |-> 850 - (i - 1) * 50,
                 eligible |-> Eligible(first3[i])]]
        Matched(m) ==
            IF m.results # <<>> THEN m
            ELSE IF demo_matches # <<>>
            THEN [results |-> demo_matches, stored |-> m.stored]
            ELSE [results |-> DemoMatches, stored |-> m.stored]
    IN Matched(_generate_matches(table, rows, stored, write_ok))

\* what the persistence layer and the narrative collaborator do during one
\* completion: the narrative call, the commit of the responses, the matching run
OkEnv == [narrative |-> "ok", save |-> "ok", matches |-> "ok"]
\* one fault at a time: the narrative call, the response save, the match run
CompletionEnvs ==
    {[OkEnv EXCEPT !.narrative = o] : o \in LLMOutcomes}
        \cup {[OkEnv EXCEPT !.save = "fails"], [OkEnv EXCEPT !.matches = "fails"]}

\* AdaptiveQuizService._complete_quiz
_complete_quiz(sd, table, rows, stored, e) ==
    LET Completed(saved, final_insights, m) ==
            IF e.save = "fails"
            THEN [raised |-> TRUE, rows |-> rows, stored |-> stored,
                  insights |-> <<>>, matches |-> <<>>, recommendations |-> <<>>]
            ELSE [raised |-> FALSE, rows |-> saved, stored |-> m.stored,
                  insights |-> final_insights, matches |-> Take(m.results, 5),
                  recommendations |-> _generate_recommendations(sd.responses, m.results)]
        Saved(saved) ==
            Completed(saved, _generate_final_insights(sd.responses, e.narrative),
                      _generate_matches(table, saved, stored, e.matches = "ok"))
    IN Saved(_save_responses_to_db(rows, sd))

NoCompletion ==
    [raised |-> FALSE, rows |-> <<>>, stored |-> {}, insights |-> <<>>,
     matches |-> <<>>, recommendations |-> <<>>]

\* AdaptiveQuizService.generate_insights
generate_insights(storage, sd, table, rows, stored, o) ==
    IF sd.session_id \notin storage
    THEN [status |-> "no_data", insights |-> <<>>, matches |-> <<>>,
          recommendations |-> <<>>, stored |-> stored]
    ELSE IF _generate_investment_profile_raises(sd.responses)
    THEN [status |-> "error", insights |-> <<>>, matches |-> <<>>,
          recommendations |-> <<>>, stored |-> stored]
    ELSE LET Generated(m) ==
                 [status |-> IF Len(sd.responses) >= 5 THEN "completed"
                             ELSE "in_progress",
                  insights |-> _generate_final_insights(sd.responses, o),
                  matches |-> m.results,
                  recommendations |->
                      _generate_recommendations(sd.responses, m.results),
                  stored |-> m.stored]
         IN Generated(_get_broker_matches(table, rows, stored, TRUE))

----------------------------------------------------------------------------
(* Service operations, continued                                           *)

\* AdaptiveQuizService.submit_response_and_get_next: the session after the
\* call, the rows it persisted and what it returned
submit_response_and_get_next(sd, answer, rows, g, e) ==
    LET stored == [sd EXCEPT !.responses = Append(@, ResponseData(sd, answer))]
        analysed == [stored EXCEPT
                       !.insights = @ \o _analyze_response_with_psychology(
                                             stored.responses, answer)]
        focused == [analysed EXCEPT
                       !.focus_areas = _update_focus_areas(@, answer)]
        Returned(submitted, advanced, gen, done) ==
            IF QuizIsOver(submitted)
            THEN [kind |-> IF done.raised THEN "failed" ELSE "completed",
                  sd |-> submitted, rows |-> done.rows, gen |-> gen, done |-> done]
            ELSE IF gen.raised
            THEN [kind |-> "error", sd |-> advanced, rows |-> rows, gen |-> gen,
                  done |-> NoCompletion]
            ELSE [kind |-> "question",
                  sd |-> [gen.sd EXCEPT !.current_question_text = gen.question.text],
                  rows |-> rows, gen |-> gen, done |-> NoCompletion]
        Generated(submitted, advanced) ==
            Returned(submitted, advanced,
                     _generate_psychology_enhanced_question(advanced, g),
                     _complete_quiz(submitted, brokers, rows, matchRows, e))
        Advanced(submitted) ==
            Generated(submitted,
                      [submitted EXCEPT !.current_question = NextSlot(submitted)])
    IN Advanced(focused)

\* the payload fields returned with a question
StartPayload == [NoPayload EXCEPT !.progress = 10]
QuestionPayload(sd) ==
    [NoPayload EXCEPT !.progress = (sd.current_question * 100) \div total_questions]

\* the payload fields of a completion
CompletionPayload(done) ==
    [NoPayload EXCEPT !.insights = done.insights, !.matches = done.matches,
                      !.recommendations = done.recommendations]

\* the payload after submit_response_and_get_next
SubmitPayload(r) ==
    IF r.kind = "completed" THEN CompletionPayload(r.done)
    ELSE IF r.kind = "question" THEN QuestionPayload(r.sd)
    ELSE NoPayload

\* the write that failed while the quiz was being completed
FaultOf(r, e) ==
    IF r.kind \notin {"completed", "failed"} THEN "none"
    ELSE IF e.save = "fails" THEN "responses"
    ELSE IF e.matches = "fails" THEN "matches"
    ELSE "none"

\* the persistence layer and the narrative deviate only while a quiz completes
\* for the first time
EnvAllowed(sd, e) ==
    e = OkEnv \/ (QuizIsOver(sd) /\ Len(sd.responses) < total_questions)

\* a caller starts a session through the service
StartSession(g) ==
    /\ nextSid <= MaxSessions
    /\ Len(session.responses) <= MaxAbandonedRows
    /\ GenAllowed(g)
    /\ LET Started(r) ==
           /\ session' = IF r.raised THEN session ELSE r.sd
           /\ served' = IF r.raised THEN served ELSE <<ServedEntry(r.gen)>>
           /\ result' = IF r.raised THEN ErrorResult("start")
                        ELSE QuestionResult("start", r.gen, r.sd)
           /\ payload' = IF r.raised THEN NoPayload ELSE StartPayload
       IN Started(start_adaptive_quiz(nextSid, g))
    /\ nextSid' = nextSid + 1
    /\ genFailures' = GenCount(g)
    /\ extraSubmits' = 0
    /\ variedAnswers' = 0
    /\ writeFault' = "none"
    /\ UNCHANGED <<db, completedSids, brokers, matchRows, session_storage,
                   quizzes, saving>>

\* a caller submits an answer through the service, holding the session
\* dictionary the service mutates in place
SubmitResponse(a, g, e) ==
    /\ session.session_id # 0
    /\ IsCompleted(session) => extraSubmits < MaxExtraSubmits
    /\ GenAllowed(g)
    /\ AnswerAllowed(a)
    /\ EnvAllowed(session, e)
    /\ variedAnswers' = AnswerCount(a)
    /\ LET Returned(r) ==
           /\ session' = r.sd
           /\ db' = r.rows
           /\ served' = IF r.kind = "question" THEN Append(served, ServedEntry(r.gen))
                        ELSE served
           /\ result' = IF r.kind = "completed" THEN CompletedResult("submit", r.sd)
                        ELSE IF r.kind \in {"error", "failed"} THEN ErrorResult("submit")
                        ELSE QuestionResult("submit", r.gen, r.sd)
           /\ payload' = SubmitPayload(r)
           /\ matchRows' = IF r.kind = "completed" THEN r.done.stored ELSE matchRows
           /\ writeFault' = FaultOf(r, e)
           /\ quizzes' = IF r.kind = "completed"
                          THEN _get_or_create_quiz(quizzes, session.session_id)
                          ELSE quizzes
           /\ completedSids' = IF r.kind = "completed"
                               THEN completedSids \cup {session.session_id}
                               ELSE completedSids
           /\ genFailures' = IF r.kind \in {"completed", "failed"} THEN genFailures
                             ELSE GenCount(g)
       IN Returned(submit_response_and_get_next(session, a, db, g, e))
    /\ extraSubmits' = IF IsCompleted(session) THEN extraSubmits + 1 ELSE extraSubmits
    /\ UNCHANGED <<nextSid, brokers, session_storage,
                   saving>>

Next ==
    \/ StartSession(OkGen)
    \/ \E a \in SvcAnswers : SubmitResponse(a, OkGen, OkEnv)

Spec == Init /\ [][Next]_vars

----------------------------------------------------------------------------
(* HTTP handlers                                                           *)

Reverse(seq) == [i \in 1..Len(seq) |-> seq[Len(seq) + 1 - i]]

\* /respond: numbers are turned into strings before the service sees them
FormatAnswer(a) == IF a.kind = "num" THEN StrAnswer({}) ELSE a

\* /respond: the record that replaces the session's response list
CurrentResponse(sd, answer) ==
    [question_number |-> sd.current_question, response |-> answer,
     wrapped |-> TRUE, sid |-> sd.session_id,
     question_text |-> sd.current_question_text]

\* /respond: the UserQuizResponse row saved after the service call
FormattedRow(sd, answer) ==
    [dict |-> TRUE, sid |-> sd.session_id, answer |-> answer,
     question_order |-> sd.current_question,
     question_text |-> sd.current_question_text,
     qtext |-> sd.current_question_text]

\* AdaptiveQuizService.restore_quiz_session
restore_quiz_session(sid, existing_responses, g) ==
    LET restored ==
            [i \in 1..Len(existing_responses) |->
                [question_number |-> existing_responses[i].question_order,
                 response |-> existing_responses[i].answer,
                 wrapped |-> FALSE, sid |-> 0,
                 question_text |-> existing_responses[i].question_text]]
        session_data ==
            [session_id |-> sid,
             current_question |-> Len(existing_responses) + 1,
             responses |-> restored, insights |-> <<>>, focus_areas |-> <<>>,
             question_plan |-> _create_question_plan,
             text_questions_used |-> 0, selection_questions_used |-> 0,
             current_question_text |-> NoText]
        focused ==
            IF restored # <<>>
            THEN [session_data EXCEPT
                    !.focus_areas = _update_focus_areas(@, restored[Len(restored)].response)]
            ELSE session_data
        Restored(gen) ==
            IF gen.raised THEN [raised |-> TRUE, sd |-> NoSession, gen |-> gen]
            ELSE [raised |-> FALSE,
                  sd |-> [gen.sd EXCEPT !.current_question_text = gen.question.text],
                  gen |-> gen]
    IN Restored(_generate_psychology_enhanced_question(focused, g))

\* /start: the session id carried by the most recent row, 0 when it has none
LatestSessionId(rows) ==
    IF rows = <<>> THEN 0
    ELSE IF rows[Len(rows)].dict THEN rows[Len(rows)].sid ELSE 0

\* /start: the rows of that session, most recent first
SessionResponses(rows, sid) ==
    SelectSeq(Reverse(rows), LAMBDA r : r.dict /\ r.sid = sid)

\* /start: restore is attempted only for a session with at least 10 rows
RestoresSession(rows) ==
    /\ LatestSessionId(rows) # 0
    /\ Len(SessionResponses(rows, LatestSessionId(rows))) >= RestoreThreshold

\* POST /start, the session found completed: it is restored and returned
\* with completed = True
ApiStartRestore(g) ==
    /\ RestoresSession(db)
    /\ GenAllowed(g)
    /\ LET Restored(sid, r) ==
       /\ session' = IF r.raised THEN session ELSE r.sd
       /\ served' = IF r.raised THEN served ELSE <<ServedEntry(r.gen)>>
       /\ result' = IF r.raised THEN ErrorResult("restore")
                    ELSE [op |-> "restore", kind |-> "completed",
                          order |-> r.gen.order,
                          question_type |-> r.gen.question.question_type,
                          nresp |-> Len(r.sd.responses)]
       /\ completedSids' = IF r.raised THEN completedSids
                           ELSE completedSids \cup {sid}
       /\ payload' = IF r.raised THEN NoPayload
                     ELSE [NoPayload EXCEPT
                             !.progress = (r.sd.current_question * 100) \div total_questions,
                             !.insights = _generate_final_insights(r.sd.responses, "ok"),
                             !.recommendations =
                                 _generate_recommendations(r.sd.responses, <<>>)]
           Restore(sid) ==
               Restored(sid, restore_quiz_session(sid, SessionResponses(db, sid), g))
       IN Restore(LatestSessionId(db))
    /\ genFailures' = GenCount(g)
    /\ writeFault' = "none"
    /\ UNCHANGED <<db, nextSid, extraSubmits, variedAnswers, brokers, matchRows,
                   session_storage,
                   quizzes, saving>>

\* POST /start, no completed session found: a new session is started
ApiStartFresh(g) ==
    /\ ~RestoresSession(db)
    /\ nextSid <= MaxSessions
    /\ Len(SessionResponses(db, LatestSessionId(db))) <= MaxAbandonedRows
    /\ GenAllowed(g)
    /\ LET Started(r) ==
           /\ session' = IF r.raised THEN session ELSE r.sd
           /\ served' = IF r.raised THEN served ELSE <<ServedEntry(r.gen)>>
           /\ result' = IF r.raised THEN ErrorResult("start")
                        ELSE QuestionResult("start", r.gen, r.sd)
           /\ payload' = IF r.raised THEN NoPayload ELSE StartPayload
       IN Started(start_adaptive_quiz(nextSid, g))
    /\ nextSid' = nextSid + 1
    /\ genFailures' = GenCount(g)
    /\ extraSubmits' = 0
    /\ variedAnswers' = 0
    /\ writeFault' = "none"
    /\ UNCHANGED <<db, completedSids, brokers, matchRows, session_storage,
                   quizzes, saving>>

\* POST /respond: the client sends back the session it was given, with the
\* id of the question it answers
ApiRespond(a, g, e) ==
    /\ session.session_id # 0
    /\ IsCompleted(session) => extraSubmits < MaxExtraSubmits
    /\ GenAllowed(g)
    /\ AnswerAllowed(a)
    /\ EnvAllowed(session, e)
    /\ variedAnswers' = AnswerCount(a)
    /\ LET answer == FormatAnswer(a)
           session_data == [session EXCEPT
                              !.responses = <<CurrentResponse(session, answer)>>]
           Returned(r, failed) ==
       /\ session' = IF failed THEN session ELSE r.sd
       /\ db' = IF failed THEN r.rows
                ELSE Append(r.rows, FormattedRow(session, answer))
       /\ served' = IF r.kind = "question" THEN Append(served, ServedEntry(r.gen))
                    ELSE served
       /\ result' = IF r.kind = "completed" THEN CompletedResult("respond", r.sd)
                    ELSE IF failed THEN ErrorResult("respond")
                    ELSE QuestionResult("respond", r.gen, r.sd)
       /\ payload' = SubmitPayload(r)
       /\ matchRows' = IF r.kind = "completed" THEN r.done.stored ELSE matchRows
       /\ writeFault' = FaultOf(r, e)
       /\ quizzes' = IF r.kind = "completed"
                      THEN _get_or_create_quiz(quizzes, session.session_id)
                      ELSE quizzes
       /\ completedSids' = IF r.kind = "completed"
                           THEN completedSids \cup {session.session_id}
                           ELSE completedSids
       /\ genFailures' = IF r.kind \in {"completed", "failed"} THEN genFailures
                         ELSE GenCount(g)
           Responded(r) == Returned(r, r.kind \in {"error", "failed"})
       IN Responded(submit_response_and_get_next(session_data, answer, db, g, e))
    /\ extraSubmits' = IF IsCompleted(session) THEN extraSubmits + 1 ELSE extraSubmits
    /\ UNCHANGED <<nextSid, brokers, session_storage,
                   saving>>

NextApi ==
    \/ ApiStartFresh(OkGen)
    \/ ApiStartRestore(OkGen)
    \/ \E a \in ApiAnswers : ApiRespond(a, OkGen, OkEnv)

SpecApi == Init /\ [][NextApi]_vars

SvcGenOutcomes == {g \in GenOutcomes : g.topic = "ok"}

NextGen ==
    \/ \E g \in SvcGenOutcomes : StartSession(g)
    \/ \E g \in SvcGenOutcomes : SubmitResponse(GenAnswer, g, OkEnv)

SpecGen == Init /\ [][NextGen]_vars

----------------------------------------------------------------------------
(* Completion cascade and on-demand insights through the service           *)

\* answers whose keywords the pattern analyzer looks for, given to the first
\* MaxKeywordSlots questions; the other questions get an answer without them
KeywordAnswers == {StrAnswer({"research"}), StrAnswer({"friends"})}
CascadeAnswers(sd) ==
    IF sd.current_question <= MaxKeywordSlots THEN KeywordAnswers ELSE {GenAnswer}

\* AdaptiveQuizService._set_session, called with the session the caller holds
SetSession ==
    /\ session.session_id # 0
    /\ session.session_id \notin session_storage
    /\ session_storage' = session_storage \cup {session.session_id}
    /\ result' = [NoResult EXCEPT !.op = "set_session"]
    /\ payload' = NoPayload
    /\ writeFault' = "none"
    /\ UNCHANGED <<session, db, nextSid, completedSids, served, genFailures,
                   extraSubmits, variedAnswers, brokers, matchRows,
                   quizzes, saving>>

\* a caller asks the service for the insights of the session it holds
GenerateInsights(o) ==
    /\ session.session_id # 0
    /\ LET Generated(r) ==
           /\ result' = [NoResult EXCEPT !.op = "insights", !.kind = r.status,
                                         !.nresp = Len(session.responses)]
           /\ payload' = [NoPayload EXCEPT !.insights = r.insights, !.matches = r.matches,
                                          !.recommendations = r.recommendations,
                                          !.status = r.status]
           /\ matchRows' = r.stored
       IN Generated(generate_insights(session_storage, session, brokers, db, matchRows, o))
    /\ writeFault' = "none"
    /\ UNCHANGED <<session, db, nextSid, completedSids, served, genFailures,
                   extraSubmits, variedAnswers, brokers, session_storage,
                   quizzes, saving>>

NextCascade ==
    \/ StartSession(OkGen)
    \/ \E a \in CascadeAnswers(session), e \in CompletionEnvs : SubmitResponse(a, OkGen, e)
    \/ SetSession
    \/ \E o \in LLMOutcomes : GenerateInsights(o)

\* one session is followed from its start to its completion: the session
\* counter starts at the last session the bounds allow
InitCascade ==
    /\ quizzes = {}
    /\ saving = NoSaving
    /\ session = NoSession
    /\ db = <<>>
    /\ result = NoResult
    /\ nextSid = MaxSessions
    /\ completedSids = {}
    /\ served = <<>>
    /\ genFailures = 0
    /\ extraSubmits = 0
    /\ variedAnswers = 0
    /\ brokers = DefaultBrokers
    /\ matchRows = {}
    /\ payload = NoPayload
    /\ session_storage = {}
    /\ writeFault = "none"

SpecCascade == InitCascade /\ [][NextCascade]_vars

----------------------------------------------------------------------------
(* Ranking, restart and /insights over a populated store                   *)

\* Broker tables the store may hold: eligible brokers, two brokers that differ
\* in their id only, brokers the matching query filters out
Senior1 == Broker(1, "senior", {"retirement_planning", "financial_planning"}, 45, 90)
Expert2 == Broker(2, "expert", {"tax_strategies", "technology_investing"}, 50, 100)
Junior3 == Broker(3, "junior", {}, 0, 0)
Senior7 == [Senior1 EXCEPT !.id = 7]
Inactive4 == [Broker(4, "intermediate", {"financial_planning"}, 30, 50)
                EXCEPT !.is_active = FALSE]
Unverified5 == [Broker(5, "senior", {"tax_strategies"}, 48, 95)
                  EXCEPT !.is_verified = FALSE]
TestAccount6 == [Broker(6, "expert", {"retirement_planning"}, 50, 100)
                   EXCEPT !.test_email = TRUE]

BrokerTables ==
    { <<Senior1, Expert2, Junior3>>,
      <<Senior7, Senior1, Expert2>>,
      <<Senior1, Senior7>>,
      <<Expert2, Inactive4, Senior1, Unverified5>>,
      <<Inactive4, Unverified5, TestAccount6>>,
      <<>> }

\* response rows the user may have: none, the questionnaire answered in full,
\* answered in part, a list where a word is expected, an empty answer, a row
\* written by /respond for the fallback experience question, a goal typed in
\* free text next to answered services and sectors
SeedTables ==
    { <<>>,
      << SeedRow(GoalQuestion, StrAnswer({"capital_preservation"})),
         SeedRow(ServicesQuestion, ListOf({"budgeting", "estate_planning"})),
         SeedRow(SectorsQuestion, ListOf({"energy"})) >>,
      << SeedRow(GoalQuestion, StrAnswer({"retirement"})),
         SeedRow(ExperienceQuestion, StrAnswer({"intermediate"})),
         SeedRow(RiskQuestion, StrAnswer({"moderate"})),
         SeedRow(SectorsQuestion, ListOf({"technology", "healthcare"})),
         SeedRow(CommunicationQuestion, StrAnswer({"video"})),
         SeedRow(AmountQuestion, StrAnswer({"100k_500k"})),
         SeedRow(ServicesQuestion, ListOf({"retirement_planning", "tax_planning"})),
         SeedRow(CertificationQuestion, ListOf({"cfp"})) >>,
      << SeedRow(ExperienceQuestion, StrAnswer({"expert"})),
         SeedRow(RiskQuestion, StrAnswer({"aggressive"})),
         SeedRow(AmountQuestion, StrAnswer({"less_10k"})),
         SeedRow(CertificationQuestion, ListOf({"no_preference"})),
         SeedRow(GoalQuestion, StrAnswer({})),
         SeedRow(ExperienceQuestion, StrAnswer({"none"})) >>,
      << SeedRow(GoalQuestion, ListOf({"retirement"})),
         SeedRow(ServicesQuestion, StrAnswer({"tax_planning"})) >>,
      << SeedRow(RiskQuestion, NoneAnswer) >>,
      << [dict |-> TRUE, sid |-> 1, answer |-> StrAnswer({"expert"}),
          question_order |-> 3,
          question_text |-> FallbackText("Investment experience and knowledge"),
          qtext |-> FallbackText("Investment experience and knowledge")] >> }

InitMatch ==
    /\ quizzes = {}
    /\ saving = NoSaving
    /\ session = NoSession
    /\ db \in SeedTables
    /\ result = NoResult
    /\ nextSid = 1
    /\ completedSids = {}
    /\ served = <<>>
    /\ genFailures = 0
    /\ extraSubmits = 0
    /\ variedAnswers = 0
    /\ brokers \in BrokerTables
    /\ matchRows = {}
    /\ payload = NoPayload
    /\ session_storage = {}
    /\ writeFault = "none"

TopNs == {1, 2, 5, DefaultTopN}

\* /restart with the delete statement left out
DeleteUserResponsesSkipped(rows) == rows

\* /restart: db.query(UserQuizResponse).filter(user_id == ...).delete()
DeleteUserResponses(rows) == <<>>

\* POST /restart
ApiRestart(g) ==
    /\ nextSid <= MaxSessions
    /\ GenAllowed(g)
    /\ db' = DeleteUserResponses(db)
    /\ LET Started(r) ==
           /\ session' = IF r.raised THEN session ELSE r.sd
           /\ served' = IF r.raised THEN served ELSE <<ServedEntry(r.gen)>>
           /\ result' = IF r.raised THEN ErrorResult("restart")
                        ELSE QuestionResult("restart", r.gen, r.sd)
           /\ payload' = IF r.raised THEN NoPayload ELSE StartPayload
       IN Started(start_adaptive_quiz(nextSid, g))
    /\ nextSid' = nextSid + 1
    /\ genFailures' = GenCount(g)
    /\ extraSubmits' = 0
    /\ variedAnswers' = 0
    /\ writeFault' = "none"
    /\ UNCHANGED <<completedSids, brokers, matchRows, session_storage,
                   quizzes, saving>>

\* BrokerMatchingAlgorithm.calculate_matches called directly: the pairs
\* (broker, score) it returns, the score unrounded
CalculateMatches(top_n) ==
    /\ LET Ranked(matches) ==
       payload' = [NoPayload EXCEPT
                     !.matches = [i \in 1..Len(matches) |->
                                    [broker_id |-> matches[i].broker.id,
                                     match_score |-> matches[i].score,
                                     eligible |-> Eligible(matches[i].broker)]],
                     !.top_n = top_n]
       IN Ranked(calculate_matches(brokers, db, top_n))
    /\ result' = [NoResult EXCEPT !.op = "calculate", !.kind = "matches"]
    /\ writeFault' = "none"
    /\ UNCHANGED <<session, db, nextSid, completedSids, served, genFailures,
                   extraSubmits, variedAnswers, brokers, matchRows, session_storage,
                   quizzes, saving>>

\* generate_broker_matches, as POST /matches/generate (save_to_db = True) and
\* the financial analysis service (save_to_db = False) call it
GenerateMatches(save_to_db) ==
    /\ LET Generated(r) ==
           /\ payload' = [NoPayload EXCEPT !.matches = r.results, !.top_n = DefaultTopN,
                                          !.save_to_db = save_to_db]
           /\ matchRows' = r.stored
       IN Generated(generate_broker_matches(brokers, db, matchRows, save_to_db, TRUE))
    /\ result' = [NoResult EXCEPT !.op = "generate", !.kind = "matches"]
    /\ writeFault' = "none"
    /\ UNCHANGED <<session, db, nextSid, completedSids, served, genFailures,
                   extraSubmits, variedAnswers, brokers, session_storage,
                   quizzes, saving>>

\* GET /insights/{user_id}: the first ten rows as response records
InsightResponses(rows) ==
    [i \in 1..Len(Take(rows, 10)) |->
        [question_number |-> i, response |-> rows[i].answer, wrapped |-> TRUE,
         sid |-> 0, question_text |-> rows[i].qtext]]

\* GET /insights/{user_id}
ApiInsights(o) ==
    /\ LET Answered(response_data, m) ==
          IF db = <<>>
          THEN /\ payload' = [NoPayload EXCEPT !.status = "no_responses"]
               /\ matchRows' = matchRows
          ELSE /\ payload' = [NoPayload EXCEPT
                                !.insights = _generate_final_insights(response_data, o),
                                !.matches = m.results,
                                !.recommendations =
                                    _generate_recommendations(response_data, m.results),
                                !.status = "completed"]
               /\ matchRows' = m.stored
       IN Answered(InsightResponses(db),
                   _get_broker_matches(brokers, db, matchRows, TRUE))
    /\ result' = [NoResult EXCEPT !.op = "api_insights", !.kind = "insights",
                                  !.nresp = Len(db)]
    /\ writeFault' = "none"
    /\ UNCHANGED <<session, db, nextSid, completedSids, served, genFailures,
                   extraSubmits, variedAnswers, brokers, session_storage,
                   quizzes, saving>>

NextMatch ==
    \/ ApiRestart(OkGen)
    \/ \E top_n \in TopNs : CalculateMatches(top_n)
    \/ \E save_to_db \in BOOLEAN : GenerateMatches(save_to_db)
    \/ \E o \in LLMOutcomes : ApiInsights(o)

SpecMatch == InitMatch /\ [][NextMatch]_vars

----------------------------------------------------------------------------
(* Helpers applied to a live session                                       *)

\* answer texts given to the first MaxKeywordSlots questions, by the keywords
\* they contain; the other questions get an answer without keywords
ProfileTexts ==
    {StrAnswer({"retirement"}), StrAnswer({"safe", "conservative"}),
     StrAnswer({"retirement", "tax"}), StrAnswer({"estate"})}
ProfileAnswers(sd) ==
    IF sd.current_question <= MaxKeywordSlots THEN ProfileTexts ELSE {GenAnswer}

\* _generate_investment_profile called with the responses the session holds
GenerateProfile ==
    /\ session.session_id # 0
    /\ LET Returned(r) ==
           /\ result' = [NoResult EXCEPT !.op = "profile",
                                         !.kind = IF r.raised THEN "error" ELSE "profile",
                                         !.nresp = Len(session.responses)]
           /\ payload' = [NoPayload EXCEPT !.returned = r.profile]
       IN Returned(_generate_investment_profile(session.responses))
    /\ writeFault' = "none"
    /\ UNCHANGED <<session, db, nextSid, completedSids, served, genFailures,
                   extraSubmits, variedAnswers, brokers, matchRows, session_storage,
                   quizzes, saving>>

\* _get_selection_question_type called with the session
ChooseSelectionFormat ==
    /\ session.session_id # 0
    /\ result' = [NoResult EXCEPT !.op = "choose_format", !.kind = "format",
                                  !.question_type = _get_selection_question_type(session),
                                  !.nresp = Len(session.responses)]
    /\ payload' = NoPayload
    /\ writeFault' = "none"
    /\ UNCHANGED <<session, db, nextSid, completedSids, served, genFailures,
                   extraSubmits, variedAnswers, brokers, matchRows, session_storage,
                   quizzes, saving>>

NextProfile ==
    \/ StartSession(OkGen)
    \/ \E a \in ProfileAnswers(session) : SubmitResponse(a, OkGen, OkEnv)
    \/ GenerateProfile
    \/ ChooseSelectionFormat

SpecProfile == InitCascade /\ [][NextProfile]_vars

----------------------------------------------------------------------------
(* Completions of different users running at the same time                 *)
(*                                                                         *)
(* Each completion runs _save_responses_to_db in a database transaction of *)
(* its own.  The statements of the function are the steps: the query for   *)
(* the Quiz by title, the insert and flush of a new Quiz, the insert of    *)
(* each response, the commit.  A transaction reads the rows that were      *)
(* committed when its query ran; what it flushed is visible to the others  *)
(* once it commits.  db holds the rows of all the users here.              *)

\* the session a user completes: every question of the plan answered
CompletingSession(u) ==
    [NoSession EXCEPT
        !.session_id = u,
        !.current_question = total_questions,
        !.question_plan = _create_question_plan,
        !.responses =
            [i \in 1..total_questions |->
                [question_number |-> i, response |-> GenAnswer, wrapped |-> FALSE,
                 sid |-> 0, question_text |-> LlmText(_create_question_plan[i].topic)]]]

\* quiz = self.db.query(Quiz).filter(Quiz.title == ...).first()
QueryQuiz(u) ==
    /\ saving[u].pc = "idle"
    /\ saving' = [saving EXCEPT ![u] =
                    [NoTransaction EXCEPT
                        !.pc = "queried",
                        !.quiz_found = \E quiz \in quizzes :
                                          quiz.title = AdaptiveQuizTitle]]
    /\ UNCHANGED <<session, db, result, nextSid, completedSids, served, genFailures,
                   extraSubmits, variedAnswers, brokers, matchRows, payload,
                   session_storage, writeFault, quizzes>>

\* if not quiz: self.db.add(Quiz(id=str(uuid.uuid4()), ...)); self.db.flush()
AddQuiz(u) ==
    /\ saving[u].pc = "queried"
    /\ ~saving[u].quiz_found
    /\ saving' = [saving EXCEPT ![u].pc = "saving", ![u].quiz_added = TRUE]
    /\ UNCHANGED <<session, db, result, nextSid, completedSids, served, genFailures,
                   extraSubmits, variedAnswers, brokers, matchRows, payload,
                   session_storage, writeFault, quizzes>>

\* one turn of the loop over the responses: the QuizQuestion is added and
\* flushed, the UserQuizResponse is added
AddResponse(u) ==
    /\ \/ saving[u].pc = "queried" /\ saving[u].quiz_found
       \/ saving[u].pc = "saving"
    /\ saving[u].flushed < Len(CompletingSession(u).responses)
    /\ saving' = [saving EXCEPT ![u].pc = "saving", ![u].flushed = @ + 1]
    /\ UNCHANGED <<session, db, result, nextSid, completedSids, served, genFailures,
                   extraSubmits, variedAnswers, brokers, matchRows, payload,
                   session_storage, writeFault, quizzes>>

\* self.db.commit(): the Quiz the transaction added and the rows of its
\* responses become visible
CommitSave(u) ==
    /\ saving[u].pc = "saving"
    /\ saving[u].flushed = Len(CompletingSession(u).responses)
    /\ saving' = [saving EXCEPT ![u].pc = "committed"]
    /\ quizzes' = IF saving[u].quiz_added THEN quizzes \cup {AdaptiveQuiz(u)}
                  ELSE quizzes
    /\ db' = _save_responses_to_db(db, CompletingSession(u))
    /\ UNCHANGED <<session, result, nextSid, completedSids, served, genFailures,
                   extraSubmits, variedAnswers, brokers, matchRows, payload,
                   session_storage, writeFault>>

NextSave ==
    \/ \E u \in CompletingUsers : QueryQuiz(u)
    \/ \E u \in CompletingUsers : AddQuiz(u)
    \/ \E u \in CompletingUsers : AddResponse(u)
    \/ \E u \in CompletingUsers : CommitSave(u)

SpecSave == Init /\ [][NextSave]_vars

----------------------------------------------------------------------------
(* The aggregate analyzer applied to one answer text                       *)

\* keywords an answer text may contain, some from every family the analyzer
\* looks for
AnalyzerKeywords ==
    {"friends", "research", "analyze", "data", "gut", "feeling", "safe", "growth",
     "charts", "meeting"}

\* answer texts, each given by the keywords it contains
AnalyzerTexts ==
    {StrAnswer(kw) : kw \in {k \in SUBSET AnalyzerKeywords :
                                Cardinality(k) <= MaxTextKeywords}}

\* the response record of one answer text
TextRecord(a) ==
    [question_number |-> 1, response |-> a, wrapped |-> FALSE, sid |-> 0,
     question_text |-> NoText]

\* _analyze_response_patterns called with the one answer
AnalyzeAnswer(a) ==
    /\ result' = [NoResult EXCEPT !.op = "analyze", !.kind = "patterns"]
    /\ payload' = [NoPayload EXCEPT
                     !.input = a,
                     !.returned = <<_analyze_response_patterns(<<TextRecord(a)>>)>>]
    /\ writeFault' = "none"
    /\ UNCHANGED <<session, db, nextSid, completedSids, served, genFailures,
                   extraSubmits, variedAnswers, brokers, matchRows, session_storage,
                   quizzes, saving>>

NextAnalyze == \E a \in AnalyzerTexts : AnalyzeAnswer(a)

SpecAnalyze == Init /\ [][NextAnalyze]_vars

----------------------------------------------------------------------------
(* Properties                                                              *)

\* C1: submit_response returns the completion payload exactly on the call
\* after which the session holds 10 response records, through the service
\* and through /respond alike.
CompletedIffTenResponses ==
    result.op \in {"submit", "respond"} =>
        (result.kind = "completed" <=> Len(session.responses) = total_questions)

\* C2: while a session is not Completed its current slot index is in 1..10,
\* after any sequence of /start (fresh or restoring) and /respond calls.
SlotIndexInRange ==
    (session.session_id # 0 /\ ~IsCompleted(session)) =>
        session.current_question \in 1..total_questions

SlotIndexInRangeWitness ==
    /\ result.op = "respond"
    /\ result.kind = "question"
    /\ ~IsCompleted(session)
    /\ session.current_question = total_questions

\* C3: the recorded slot numbers of a session are 1, 2, ..., k in submission
\* order, no slot twice, no earlier record dropped.
OneRecordPerSlot ==
    \A i \in 1..Len(session.responses) : session.responses[i].question_number = i

\* C4: a submit_response on a Completed session is not accepted and leaves
\* the session unchanged.
CompletedIsReadOnly ==
    [][(IsCompleted(session) /\ result'.op = "submit")
         => (result'.kind # "completed" /\ session' = session)]_vars

\* C5: resuming a user whose session has its 10 persisted responses returns
\* the Completed payload and generates no question for a slot beyond 10.
RestoreServesNoQuestion ==
    result.op = "restore" => (result.kind = "completed" /\ result.order = 0)

\* the number of persisted rows of the user's most recent session
PersistedOfLatest == Len(SessionResponses(db, LatestSessionId(db)))

\* C6: /start for a user with N persisted responses, 0 < N < 10, returns the
\* restored session at slot N+1 and serves the question of slot N+1.
StartRestoresIncomplete ==
    (result.op \in {"start", "restore"} /\ PersistedOfLatest \in 1..(total_questions - 1))
        => /\ result.kind = "question"
           /\ session.current_question = PersistedOfLatest + 1
           /\ result.order = PersistedOfLatest + 1

\* C7: whatever the generation collaborator does, start_session and
\* submit_response return a question or a completion payload and raise nothing.
GenerationFailureNeverPropagates ==
    result.kind # "error"

TextServed == {i \in 1..Len(served) : served[i].question_type = "text"}

\* C8: in a full 10-question session at most 2 served questions are text, at
\* least 8 are selection-like, and the questions served at slots 9 and 10 are
\* text, whichever generation path produced them.
ServedFormatDistribution ==
    (Len(served) = total_questions /\ \A i \in 1..Len(served) : served[i].order = i)
        => /\ Cardinality(TextServed) <= text_questions_limit
           /\ Len(served) - Cardinality(TextServed) >= selection_questions_limit
           /\ served[9].question_type = "text"
           /\ served[10].question_type = "text"

\* C9: every generated plan has exactly 10 slots with orders 1..10, slots 9
\* and 10 are text, and at most 2 slots are text.
PlanInvariant ==
    session.session_id # 0 =>
        LET plan == session.question_plan IN
        /\ Len(plan) = 10
        /\ \A i \in 1..Len(plan) : plan[i].order = i
        /\ plan[9].type = "text"
        /\ plan[10].type = "text"
        /\ Cardinality({i \in 1..Len(plan) : plan[i].type = "text"}) <= 2

PlanInvariantWitness ==
    /\ session.session_id # 0
    /\ result.op = "submit"
    /\ session.current_question = 9

\* an answer of the wrong type for the format of the slot it answers
Malformed(format, a) ==
    format \in {"single_choice", "scale", "text"} /\ a.kind = "list"

\* C10: a malformed answer is rejected and the rejected call leaves the
\* session unchanged, so no session ever holds a malformed answer.
MalformedAnswerRejected ==
    \A i \in 1..Len(session.responses) :
        LET r == session.responses[i] IN
        r.question_number \in 1..Len(session.question_plan) =>
            ~Malformed(session.question_plan[r.question_number].type, r.response)


\* C11: a persistence write failure during completion, while the responses
\* are saved or while the matches are computed and saved, reaches the caller of
\* the completing submit as a failure: no completion payload is returned after
\* one (violated: _generate_matches swallows the failure of the match run)
CompletionWriteFailureSurfaced ==
    (result.op = "submit" /\ result.kind = "completed") => writeFault = "none"

\* C19: for a session with at least one response, the insights list returned
\* at completion, or by generate_insights for a session the service holds, is
\* not empty, whatever the narrative call did (violated: generate_insights
\* returns "insights": [] when _generate_investment_profile raises)
InsightsNeverEmpty ==
    ( /\ Len(session.responses) >= 1
      /\ \/ result.op = "submit" /\ result.kind = "completed"
         \/ result.op = "insights" /\ session.session_id \in session_storage )
    => payload.insights # <<>>

\* C20: per category, the first response in chronological order that matches
\* a keyword fixes the trait the aggregate analyzer reports (violated: every
\* matching response assigns the trait again, the last one stays)
FirstMatchFixesTrait ==
    (result.op = "submit" /\ result.kind = "completed") =>
        LET responses == session.responses
            patterns == _analyze_response_patterns(responses)
        IN \A i \in 1..Len(responses) :
              /\ ( /\ DecisionOf(responses[i].response) # ""
                   /\ \A j \in 1..(i - 1) : DecisionOf(responses[j].response) = "" )
                 => patterns.decision_style = DecisionOf(responses[i].response)
              /\ ( /\ RiskOf(responses[i].response) # ""
                   /\ \A j \in 1..(i - 1) : RiskOf(responses[j].response) = "" )
                 => patterns.risk_level = RiskOf(responses[i].response)
              /\ ( /\ CommunicationOf(responses[i].response) # ""
                   /\ \A j \in 1..(i - 1) : CommunicationOf(responses[j].response) = "" )
                 => patterns.communication = CommunicationOf(responses[i].response)

\* C12: /restart deletes every persisted response of the user and returns a
\* fresh started session: slot 1, no responses, progress 10%, whether the user
\* had responses, had none, or has just restarted
RestartYieldsFreshSession ==
    (result.op = "restart" /\ result.kind # "error") =>
        /\ db = <<>>
        /\ result.kind = "question"
        /\ result.order = 1
        /\ session.current_question = 1
        /\ session.responses = <<>>
        /\ payload.progress = 10

\* a second restart in a row, on a user who had responses before the first
RestartYieldsFreshSessionWitness ==
    /\ result.op = "restart"
    /\ result.kind = "question"
    /\ nextSid = 3
    /\ db = <<>>
    /\ session.session_id = 2

\* C13: for a user with no persisted responses, in particular after /restart,
\* the ranking is the empty list and no error
NoResponsesNoMatches ==
    (result.op \in {"calculate", "generate"} /\ db = <<>>) =>
        /\ payload.matches = <<>>
        /\ result.kind = "matches"

\* a ranking right after a restart of a user whose earlier responses had
\* produced stored matches, with eligible brokers in the table
NoResponsesNoMatchesWitness ==
    /\ result.op \in {"calculate", "generate"}
    /\ db = <<>>
    /\ nextSid > 1
    /\ matchRows # {}
    /\ \E i \in 1..Len(brokers) : Eligible(brokers[i])

\* C14: the ranking is in descending score order, brokers of equal score in
\* ascending id order, and has at most top_n entries (violated: the sort is
\* stable, equal scores stay in the order the broker query returned them)
RankedByScoreThenId ==
    result.op \in {"calculate", "generate"} =>
        /\ Len(payload.matches) <= payload.top_n
        /\ \A i, j \in 1..Len(payload.matches) :
              i < j =>
                \/ payload.matches[i].match_score > payload.matches[j].match_score
                \/ /\ payload.matches[i].match_score = payload.matches[j].match_score
                   /\ payload.matches[i].broker_id < payload.matches[j].broker_id

ScoresInUnitInterval ==
    /\ WeightedTotal([c \in DOMAIN WEIGHTS |-> 1]) = 100
    /\ \A i \in 1..Len(brokers) :
          LET broker == brokers[i]
              user_responses == _get_user_responses(db)
              scores == CriterionScores(broker, user_responses)
          IN ( /\ broker.average_rating \in 0..50
               /\ broker.success_rate \in 0..100 )
             => /\ \A c \in DOMAIN scores : scores[c] \in 0..ScoreScale
                /\ DOMAIN scores = DOMAIN WEIGHTS
                /\ _calculate_broker_score(broker, user_responses)
                       \in 0..(100 * ScoreScale)

\* the full questionnaire ranked against a broker rated 5.0 with success 1.0
ScoresInUnitIntervalWitness ==
    /\ result.op = "calculate"
    /\ Len(db) >= 8
    /\ \E i \in 1..Len(payload.matches) :
          /\ payload.matches[i].broker_id = Expert2.id
          /\ payload.matches[i].match_score > 0
    /\ Expert2.average_rating = 50 /\ Expert2.success_rate = 100

\* C17: every broker returned as a match, by a ranking, in a completion
\* payload or by /insights, is active, verified and not a test or demo
\* account (violated: _get_broker_matches falls back to the first brokers of
\* the table, unfiltered, or to made-up demo brokers)
OnlyEligibleBrokersReturned ==
    \A i \in 1..Len(payload.matches) : payload.matches[i].eligible

\* C18: a matching run leaves brokers, responses and stored match rows as
\* they were (violated: generate_broker_matches with save_to_db adds
\* BrokerClientMatch rows and commits)
MatchingRunOnlyComputes ==
    [][ result'.op \in {"calculate", "generate"} =>
          /\ brokers' = brokers
          /\ db' = db
          /\ matchRows' = matchRows ]_vars


\* C21: for one answer text the analyzer reports decision_style social if the
\* text contains a social keyword, else analytical, else intuitive, else
\* balanced; risk_level and communication likewise with defaults moderate and
\* mixed; the two example texts give analytical and intuitive
AnalyzerFirstFamilyWins ==
    result.op = "analyze" =>
        LET kw == payload.input.kw
            patterns == payload.returned[1]
        IN /\ patterns.decision_style =
                 IF kw \cap {"friends", "family", "others", "social"} # {}
                 THEN "social"
                 ELSE IF kw \cap {"research", "analyze", "data", "study"} # {}
                 THEN "analytical"
                 ELSE IF kw \cap {"gut", "feeling", "intuition", "instinct"} # {}
                 THEN "intuitive"
                 ELSE "balanced"
           /\ patterns.risk_level =
                 IF kw \cap {"safe", "secure", "conservative", "protect", "worried"} # {}
                 THEN "conservative"
                 ELSE IF kw \cap {"aggressive", "growth", "risk", "opportunity", "high"} # {}
                 THEN "aggressive"
                 ELSE "moderate"
           /\ patterns.communication =
                 IF kw \cap {"charts", "graphs", "visual", "reports"} # {}
                 THEN "visual"
                 ELSE IF kw \cap {"meeting", "discussion", "talk", "conversation"} # {}
                 THEN "personal"
                 ELSE "mixed"
           /\ kw = {"research", "analyze", "data"} =>
                 patterns.decision_style = "analytical"
           /\ kw = {"gut", "feeling"} => patterns.decision_style = "intuitive"

\* "I always research and analyze the data before deciding" analysed
AnalyzerFirstFamilyWinsWitness ==
    /\ result.op = "analyze"
    /\ payload.input.kw = {"research", "analyze", "data"}
    /\ payload.returned[1].decision_style = "analytical"
    /\ payload.returned[1].risk_level = "moderate"


\* C22: the profile of the responses a live session holds has each field set
\* by the first keyword family, in the listed order, found in the joined
\* answers, the default otherwise; "I'm saving for retirement" and "I prefer
\* safe, conservative investments" give Long-term, Conservative, Balanced
\* Growth (violated: response["response"].get raises on the bare answers the
\* session records)
ProfileOfLiveSession ==
    result.op = "profile" =>
        /\ result.kind = "profile"
        /\ Len(payload.returned) = 1
        /\ LET all_text == UNION {session.responses[i].response.kw :
                                    i \in 1..Len(session.responses)}
               profile == payload.returned[1]
           IN /\ profile.investment_horizon =
                    IF {"retirement", "long", "future", "years"} \cap all_text # {}
                    THEN "Long-term (7+ years)"
                    ELSE IF {"short", "soon", "immediate", "quick"} \cap all_text # {}
                    THEN "Short-term (1-3 years)"
                    ELSE "Medium-term (3-7 years)"
              /\ profile.risk_tolerance =
                    IF {"safe", "conservative", "stable", "secure"} \cap all_text # {}
                    THEN "Conservative"
                    ELSE IF {"aggressive", "risky", "growth", "high"} \cap all_text # {}
                    THEN "Aggressive"
                    ELSE "Moderate"
              /\ profile.preferred_focus =
                    IF {"income", "dividends", "steady"} \cap all_text # {}
                    THEN "Income Generation"
                    ELSE IF {"growth", "capital", "appreciate"} \cap all_text # {}
                    THEN "Capital Growth"
                    ELSE IF {"research", "analysis", "study"} \cap all_text # {}
                    THEN "Research-Based"
                    ELSE "Balanced Growth"


\* C26: the selection format chosen for a session is the first of
\* single_choice, multiple_choice, scale whose number of questions served so
\* far in the session is below its quota (4, 3, 2), single_choice when all
\* quotas are met (violated: the counts are read from a "question_type" key
\* the response records never carry, so single_choice is always returned)
SelectionFormatFollowsQuotas ==
    result.op = "choose_format" =>
        LET used(format) ==
                Cardinality({i \in 1..Len(served) : served[i].question_type = format})
        IN result.question_type =
              IF used("single_choice") < 4 THEN "single_choice"
              ELSE IF used("multiple_choice") < 3 THEN "multiple_choice"
              ELSE IF used("scale") < 2 THEN "scale"
              ELSE "single_choice"

\* C27: after a submit with a text answer, each of retirement, tax, estate
\* the answer contains has its focus area in the session's list exactly once,
\* and the list holds no duplicate (violated: the keywords are tested with
\* if / elif, an answer with "retirement" and "tax" adds retirement_planning
\* only)
FocusAreasFollowKeywords ==
    (result.op = "submit" /\ result.kind \in {"question", "completed"}) =>
        LET answer == session.responses[Len(session.responses)].response
            areas == session.focus_areas
            Times(area) == Cardinality({i \in 1..Len(areas) : areas[i] = area})
        IN /\ \A i \in 1..Len(areas) : Times(areas[i]) = 1
           /\ IsStr(answer) =>
                 /\ "retirement" \in answer.kw => Times("retirement_planning") = 1
                 /\ "tax" \in answer.kw => Times("tax_optimization") = 1
                 /\ "estate" \in answer.kw => Times("estate_planning") = 1


\* C23: the performance score of every broker a ranking returns is
\* 0.7 * (average_rating / 5) + 0.3 * success_rate, the boundary values
\* average_rating = 0 and success_rate = 0 included (violated: a stored 0.0 is
\* falsy, so 0.5 replaces the term and a broker rated 0 with success 0 scores
\* 0.5 instead of 0)
PerformanceFollowsFormula ==
    result.op \in {"calculate", "generate"} =>
        \A i \in 1..Len(brokers) :
            LET broker == brokers[i] IN
            (\E m \in 1..Len(payload.matches) : payload.matches[m].broker_id = broker.id)
            => _score_broker_performance(broker) =
                  ( 7 * ((broker.average_rating * ScoreScale) \div 50)
                  + 3 * ((broker.success_rate * ScoreScale) \div 100) ) \div 10


\* C24: when the goal, services and sectors questions are answered, a broker
\* without specializations that a ranking returns scores 0 on investment-goal
\* alignment, service alignment and sector interests, whatever the answers
\* are (violated: a goal outside the five mapped values scores 0.7)
NoSpecializationScoresZero ==
    result.op \in {"calculate", "generate"} =>
        LET user_responses == _get_user_responses(db) IN
        ( /\ ~Unanswered(user_responses, GoalQuestion)
          /\ ~Unanswered(user_responses, ServicesQuestion)
          /\ ~Unanswered(user_responses, SectorsQuestion) )
        => \A i \in 1..Len(brokers) :
              LET broker == brokers[i] IN
              ( /\ broker.specializations = {}
                /\ \E m \in 1..Len(payload.matches) :
                      payload.matches[m].broker_id = broker.id )
              => /\ _score_investment_goals(broker, user_responses) = 0
                 /\ _score_service_alignment(broker, user_responses) = 0
                 /\ _score_sector_interests(broker, user_responses) = 0


\* C25: one call of the text-generation model is made for each served
\* question, the static fallback following the first failed call at once
\* (violated: after the psychology call fails, create_ai_question_data calls
\* the model again for the question text, and again for the options, before
\* the static fallback is used)
SingleGenerationAttempt ==
    \A i \in 1..Len(served) : served[i].generation_calls = 1


\* C28: the list of texts given to the generator for a question holds, once
\* each, the text of every question served before it in the session
\* (violated through /respond: the endpoint replaces the session's responses
\* by the current one before the service runs, so only the text of the
\* question just answered is passed)
PreviousTextsPassed ==
    \A i \in 1..Len(served) : \A j \in 1..(i - 1) :
        LET existing_questions == served[i].existing_questions IN
        served[j].text # NoText =>
            Cardinality({n \in 1..Len(existing_questions) :
                            existing_questions[n] = served[j].text}) = 1


\* C29: in every session state start, submit or restore return, the two
\* usage counters add up to the session's current slot and at most two text
\* questions were used (violated: restore_quiz_session sets both counters to 0
\* and the slot to the number of stored responses plus one, then serves one
\* question)
UsageCountersFollowSlot ==
    (session # NoSession /\ result.kind \in {"question", "completed"}) =>
        /\ session.text_questions_used + session.selection_questions_used
              = session.current_question
        /\ session.text_questions_used <= 2


\* C30: however the query, insert and commit steps of the completions of two
\* users interleave, the store holds at most one Quiz titled "Adaptive Broker
\* Matching Quiz" (violated: both queries run before either commit, both
\* transactions add a Quiz, and no unique constraint on the title stops the
\* second commit)
AtMostOneAdaptiveQuiz ==
    Cardinality({quiz \in quizzes : quiz.title = AdaptiveQuizTitle}) <= 1

====
